---- MODULE Spec2Model ----
(***************************************************************************)
(* Account REST service: the request handlers of service/routes.py over    *)
(* the Account store (service/models.py).  Handlers are operators from     *)
(* (store, request) to (store, response); Spec runs them one request at a  *)
(* time, ConcSpec runs PUT and DELETE step by step on parallel workers.    *)
(***************************************************************************)
EXTENDS Integers, Sequences, FiniteSets, TLC

\* Number of accounts a run of Spec may create (caps the id sequence).
MaxAccounts == 2

\* Number of accounts a run of ConcSpec may create.
MaxConcAccounts == 1

\* HTTP status codes (service.common.status).
HTTP_200_OK == 200
HTTP_201_CREATED == 201
HTTP_204_NO_CONTENT == 204
HTTP_400_BAD_REQUEST == 400
HTTP_404_NOT_FOUND == 404
HTTP_415_UNSUPPORTED_MEDIA_TYPE == 415
HTTP_500_INTERNAL_SERVER_ERROR == 500

VARIABLES
    store,      \* the Account table: a sequence of rows in storage order
    nextId,     \* the table's id sequence: the id the next create() assigns
    last,       \* Spec: the request handled last and its response
    hist,       \* Spec: history of the run (what was posted, what was deleted)
    wk,         \* ConcSpec: each worker's request, position and local Account
    lastUpd     \* ConcSpec: the worker whose update() wrote the store last

vars == <<store, nextId, last, hist, wk, lastUpd>>

----------------------------------------------------------------------------
\* Dates and their ISO-8601 wire form.  A date is <<year, month, day>>; its
\* wire form is the sequence of characters "YYYY-MM-DD".

Digits == <<"0", "1", "2", "3", "4", "5", "6", "7", "8", "9">>

DigitChar(n) == Digits[n + 1]

DigitVal(c) == CHOOSE n \in 0..9 : Digits[n + 1] = c

IsDigit(c) == \E n \in 0..9 : Digits[n + 1] = c

\* date.isoformat(): zero-padded year, month and day.
FormatIso(d) ==
    << DigitChar(d[1] \div 1000), DigitChar((d[1] \div 100) % 10),
       DigitChar((d[1] \div 10) % 10), DigitChar(d[1] % 10), "-",
       DigitChar(d[2] \div 10), DigitChar(d[2] % 10), "-",
       DigitChar(d[3] \div 10), DigitChar(d[3] % 10) >>

\* What date.fromisoformat() accepts: ten characters, dashes at 5 and 8.
IsIso(s) ==
    /\ Len(s) = 10
    /\ s[5] = "-" /\ s[8] = "-"
    /\ \A i \in {1, 2, 3, 4, 6, 7, 9, 10} : IsDigit(s[i])

\* date.fromisoformat()
ParseIso(s) ==
    << DigitVal(s[1]) * 1000 + DigitVal(s[2]) * 100 + DigitVal(s[3]) * 10 + DigitVal(s[4]),
       DigitVal(s[6]) * 10 + DigitVal(s[7]),
       DigitVal(s[9]) * 10 + DigitVal(s[10]) >>

\* date.today() as the requests of a run may see it.
Clock == { <<2024, 2, 29>>, <<2024, 3, 1>> }

\* The dates a deserialize() of this body may read from the clock: it calls
\* date.today() only for a body that gives no date_joined.
Today(data) ==
    IF ~data.isNull /\ "date_joined" \notin data.has
    THEN Clock ELSE { CHOOSE d \in Clock : TRUE }

----------------------------------------------------------------------------
\* Request bodies.  A JSON body is null or an object; `has` is the set of
\* keys the object carries, and a key it does not carry holds a filler that
\* is never read.

RequiredKeys == <<"name", "email", "address", "phone_number">>

Keys == {"name", "email", "address", "phone_number", "date_joined", "id"}

NoDate == <<>>

NullBody ==
    [isNull |-> TRUE, has |-> {}, name |-> "", email |-> "", address |-> "",
     phone_number |-> "", date_joined |-> NoDate, id |-> 0]

BaseA ==
    [name |-> "Ann", email |-> "ann@a.org", address |-> "1 A St",
     phone_number |-> "111", date_joined |-> FormatIso(<<2020, 1, 2>>), id |-> 2]

BaseB ==
    [name |-> "Bob", email |-> "bob@b.org", address |-> "2 B Rd",
     phone_number |-> "222", date_joined |-> FormatIso(<<1999, 12, 31>>), id |-> 1]

Body(base, has) ==
    [isNull |-> FALSE, has |-> has,
     name |-> IF "name" \in has THEN base.name ELSE "",
     email |-> IF "email" \in has THEN base.email ELSE "",
     address |-> IF "address" \in has THEN base.address ELSE "",
     phone_number |-> IF "phone_number" \in has THEN base.phone_number ELSE "",
     date_joined |-> IF "date_joined" \in has THEN base.date_joined ELSE NoDate,
     id |-> IF "id" \in has THEN base.id ELSE 0]

Required == { RequiredKeys[i] : i \in 1..Len(RequiredKeys) }

\* The bodies a client sends: full payloads with and without a date and an
\* id of their own, payloads lacking one required field, the lone name of
\* test_bad_request, the empty object, and null.
Bodies ==
    { Body(BaseA, Required \cup {"date_joined"}), Body(BaseA, Required \cup {"id"}),
      Body(BaseB, Keys), Body(BaseB, Required) }
    \cup { Body(BaseA, (Required \ {k}) \cup {"date_joined"}) : k \in Required }
    \cup { Body(BaseA, {"name"}), Body(BaseA, {}), NullBody }

\* A body that creates or replaces an account.
ValidBody(data) ==
    /\ ~data.isNull
    /\ \A i \in 1..Len(RequiredKeys) : RequiredKeys[i] \in data.has
    /\ "date_joined" \in data.has => IsIso(data.date_joined)

\* Content-Type headers a client sends; "" is an absent header.
NoHeader == ""

CTypes == {NoHeader, "application/json", "test/html", "application/json; charset=utf-8"}

----------------------------------------------------------------------------
\* The Account entity and its store.

\* Account(): a fresh entity, nothing set (id 0 stands for None).
NewAccount ==
    [id |-> 0, name |-> "", email |-> "", address |-> "", phone_number |-> "",
     date_joined |-> <<0, 0, 0>>]

\* Account.serialize(): id as integer, date as ISO-8601 string.
Serialize(a) ==
    [id |-> a.id, name |-> a.name, email |-> a.email, address |-> a.address,
     phone_number |-> a.phone_number, date_joined |-> FormatIso(a.date_joined)]

\* The first required key the body lacks (Len + 1 when it has all four).
FirstMissing(data) ==
    IF \A i \in 1..Len(RequiredKeys) : RequiredKeys[i] \in data.has
    THEN Len(RequiredKeys) + 1
    ELSE CHOOSE i \in 1..Len(RequiredKeys) :
            /\ RequiredKeys[i] \notin data.has
            /\ \A j \in 1..(i - 1) : RequiredKeys[j] \in data.has

\* Account.deserialize(data): assigns the required fields in order and then
\* the date; a null body or a missing key raises a validation error, with the
\* fields assigned before it left on the in-memory object.  The id is never
\* read from the body.
Deserialize(a, data, today) ==
    IF data.isNull THEN [ok |-> FALSE, error |-> "DataValidationError", account |-> a]
    ELSE LET m == FirstMissing(data)
             set(k) == \E i \in 1..(m - 1) : RequiredKeys[i] = k
             b == [a EXCEPT
                     !.name = IF set("name") THEN data.name ELSE @,
                     !.email = IF set("email") THEN data.email ELSE @,
                     !.address = IF set("address") THEN data.address ELSE @,
                     !.phone_number = IF set("phone_number") THEN data.phone_number ELSE @]
         IN IF m <= Len(RequiredKeys)
            THEN [ok |-> FALSE, error |-> "DataValidationError", account |-> b]
            ELSE [ok |-> TRUE, error |-> "",
                  account |-> [b EXCEPT !.date_joined =
                                  IF "date_joined" \in data.has
                                  THEN ParseIso(data.date_joined) ELSE today]]

StoredIds(s) == { s[i].id : i \in DOMAIN s }

\* Account.find(id): the stored row, or not found.
Find(s, id) ==
    IF id \in StoredIds(s)
    THEN [found |-> TRUE, account |-> s[CHOOSE i \in DOMAIN s : s[i].id = id]]
    ELSE [found |-> FALSE, account |-> NewAccount]

\* account.create(): clears the id, inserts, and the store assigns the next id.
StoreCreate(s, nid, a) ==
    [store |-> Append(s, [a EXCEPT !.id = nid]), nextId |-> nid + 1,
     account |-> [a EXCEPT !.id = nid]]

\* account.update() with the row present: overwrites the stored fields.
StoreUpdate(s, a) == [i \in DOMAIN s |-> IF s[i].id = a.id THEN a ELSE s[i]]

\* account.update() when the row is gone: undefined.  The write is lost, or
\* the row comes back, or the call raises.
StoreUpdateOutcomes(s, a) ==
    IF a.id \in StoredIds(s)
    THEN { [store |-> StoreUpdate(s, a), raised |-> FALSE] }
    ELSE { [store |-> s, raised |-> FALSE],
           [store |-> Append(s, a), raised |-> FALSE],
           [store |-> s, raised |-> TRUE] }

\* account.delete(): removes the row; no-op if absent.
StoreDelete(s, a) == SelectSeq(s, LAMBDA r : r.id # a.id)

\* Account.all()
All(s) == s

----------------------------------------------------------------------------
\* Responses.

NoJson ==
    [id |-> 0, name |-> "", email |-> "", address |-> "", phone_number |-> "",
     date_joined |-> NoDate]

Response(status, kind, account, list, location) ==
    [status |-> status, kind |-> kind, account |-> account, list |-> list,
     location |-> location]

\* No response yet.
NoResponse == Response(0, "none", NoJson, <<>>, "")

\* abort(status, message) and the error handlers' JSON error body.
Abort(status) == Response(status, "error", NoJson, <<>>, "")

\* The error handler for an exception a handler lets through.
ErrorStatus(error) ==
    IF error = "DataValidationError" THEN HTTP_400_BAD_REQUEST
    ELSE HTTP_500_INTERNAL_SERVER_ERROR

----------------------------------------------------------------------------
\* The handlers.  Each yields the store it leaves and its response.

Result(s, nid, resp) == [store |-> s, nextId |-> nid, resp |-> resp]

\* Mutant of CheckContentType: an absent header is let through.
CheckContentTypeLoose(content_type, media_type) ==
    content_type = NoHeader \/ content_type = media_type

\* check_content_type(media_type): passes only on a present, equal header.
CheckContentType(content_type, media_type) ==
    content_type # NoHeader /\ content_type = media_type

\* Mutant of CreateAccounts: the account is serialized before create().
CreateAccountsSerializeFirst(s, nid, content_type, data, today) ==
    IF ~CheckContentType(content_type, "application/json")
    THEN Result(s, nid, Abort(HTTP_415_UNSUPPORTED_MEDIA_TYPE))
    ELSE LET d == Deserialize(NewAccount, data, today)
         IN IF ~d.ok
            THEN Result(s, nid, Abort(ErrorStatus(d.error)))
            ELSE LET c == StoreCreate(s, nid, d.account)
                 IN Result(c.store, c.nextId,
                           Response(HTTP_201_CREATED, "account",
                                    Serialize(d.account), <<>>, "/"))

\* Mutant of CreateAccounts: create() runs although deserialize() failed.
CreateAccountsStorePartial(s, nid, content_type, data, today) ==
    IF ~CheckContentType(content_type, "application/json")
    THEN Result(s, nid, Abort(HTTP_415_UNSUPPORTED_MEDIA_TYPE))
    ELSE LET d == Deserialize(NewAccount, data, today)
             c == StoreCreate(s, nid, d.account)
         IN IF ~d.ok
            THEN Result(c.store, c.nextId, Abort(ErrorStatus(d.error)))
            ELSE Result(c.store, c.nextId,
                        Response(HTTP_201_CREATED, "account",
                                 Serialize(c.account), <<>>, "/"))

\* POST /accounts
CreateAccounts(s, nid, content_type, data, today) ==
    IF ~CheckContentType(content_type, "application/json")
    THEN Result(s, nid, Abort(HTTP_415_UNSUPPORTED_MEDIA_TYPE))
    ELSE LET d == Deserialize(NewAccount, data, today)
         IN IF ~d.ok
            THEN Result(s, nid, Abort(ErrorStatus(d.error)))
            ELSE LET c == StoreCreate(s, nid, d.account)
                 IN Result(c.store, c.nextId,
                           Response(HTTP_201_CREATED, "account",
                                    Serialize(c.account), <<>>, "/"))

\* Mutant of ListAccounts: only the first account is returned.
ListAccountsFirstOnly(s) ==
    Response(HTTP_200_OK, "list", NoJson,
             IF All(s) = <<>> THEN <<>> ELSE <<Serialize(All(s)[1])>>, "")

\* GET /accounts
ListAccounts(s) ==
    Response(HTTP_200_OK, "list", NoJson,
             [i \in DOMAIN All(s) |-> Serialize(All(s)[i])], "")

\* GET /accounts/<id>
ReadAccount(s, id) ==
    LET f == Find(s, id)
    IN IF ~f.found THEN Abort(HTTP_404_NOT_FOUND)
       ELSE Response(HTTP_200_OK, "account", Serialize(f.account), <<>>, "")

\* Mutant of UpdateFind: the 404 check is missing.
UpdateFindNoAbort(s, id) ==
    LET f == Find(s, id)
    IN [found |-> f.found, account |-> f.account, aborted |-> FALSE,
        resp |-> NoResponse]

\* PUT /accounts/<id>, step 1: find the account or abort with 404.
UpdateFind(s, id) ==
    LET f == Find(s, id)
    IN [found |-> f.found, account |-> f.account, aborted |-> ~f.found,
        resp |-> IF f.found THEN NoResponse ELSE Abort(HTTP_404_NOT_FOUND)]

\* PUT, step 2: deserialize the body into the found account; a KeyError is
\* caught and aborts with 400, any other error goes to the error handlers.
UpdateDeserialize(a, data, today) ==
    LET d == Deserialize(a, data, today)
    IN [aborted |-> ~d.ok, account |-> d.account,
        resp |-> IF d.ok THEN NoResponse
                 ELSE IF d.error = "KeyError" THEN Abort(HTTP_400_BAD_REQUEST)
                 ELSE Abort(ErrorStatus(d.error))]

\* Mutant of UpdateWrite: account.update() is never called.
UpdateWriteNoCommit(s, a) ==
    { [store |-> s, resp |-> Response(HTTP_200_OK, "account", Serialize(a), <<>>, "")] }

\* Mutant of UpdateWrite: only the name reaches the stored row.
UpdateWriteNameOnly(s, a) ==
    { [store |-> [i \in DOMAIN s |->
                    IF s[i].id = a.id THEN [s[i] EXCEPT !.name = a.name] ELSE s[i]],
       resp |-> Response(HTTP_200_OK, "account", Serialize(a), <<>>, "")] }

\* PUT, step 3: account.update(), then the serialized account with 200.
UpdateWrite(s, a) ==
    { [store |-> o.store,
       resp |-> IF o.raised THEN Abort(HTTP_500_INTERNAL_SERVER_ERROR)
                ELSE Response(HTTP_200_OK, "account", Serialize(a), <<>>, "")]
      : o \in StoreUpdateOutcomes(s, a) }

\* Mutant of UpdateAccount: the body is deserialized before the 404 check.
UpdateAccountBodyFirst(s, id, data, today) ==
    LET f == UpdateFind(s, id)
        d == UpdateDeserialize(f.account, data, today)
    IN IF d.aborted THEN { [store |-> s, resp |-> d.resp] }
       ELSE IF f.aborted THEN { [store |-> s, resp |-> f.resp] }
       ELSE UpdateWrite(s, d.account)

\* PUT /accounts/<id> handled without interruption.
UpdateAccount(s, id, data, today) ==
    LET f == UpdateFind(s, id)
        d == UpdateDeserialize(f.account, data, today)
    IN IF f.aborted THEN { [store |-> s, resp |-> f.resp] }
       ELSE IF d.aborted THEN { [store |-> s, resp |-> d.resp] }
       ELSE UpdateWrite(s, d.account)

\* DELETE /accounts/<id>, step 1: find the account.
DeleteFind(s, id) == Find(s, id)

\* Mutant of DeleteWrite: account.delete() is never called.
DeleteWriteSkip(s, f) == s

\* DELETE, step 2: account.delete() if the account was found.
DeleteWrite(s, f) == IF f.found THEN StoreDelete(s, f.account) ELSE s

\* DELETE, step 3: always 204 with an empty body.
DeleteResponse == Response(HTTP_204_NO_CONTENT, "empty", NoJson, <<>>, "")

\* Mutant of DeleteAccount: an account that is not found is a 404.
DeleteAccountStrict(s, id) ==
    IF DeleteFind(s, id).found
    THEN [store |-> DeleteWrite(s, DeleteFind(s, id)), resp |-> DeleteResponse]
    ELSE [store |-> s, resp |-> Abort(HTTP_404_NOT_FOUND)]

\* DELETE /accounts/<id> handled without interruption.
DeleteAccount(s, id) ==
    [store |-> DeleteWrite(s, DeleteFind(s, id)), resp |-> DeleteResponse]

----------------------------------------------------------------------------
\* Spec: one client, one request at a time.

\* Ids a client asks for: 0, every id the store can assign, and one beyond.
ReqIds == 0..(MaxAccounts + 1)

Workers == {"w1", "w2"}

Request(op, id, content_type, data, resp) ==
    [op |-> op, id |-> id, ctype |-> content_type, body |-> data, resp |-> resp]

Idle ==
    [pc |-> "idle", op |-> "none", id |-> 0, body |-> NullBody, found |-> FALSE,
     account |-> NewAccount, resp |-> NoResponse]

Init ==
    /\ store = <<>>
    /\ nextId = 1
    /\ last = Request("none", 0, NoHeader, NullBody, NoResponse)
    /\ hist = [postsOnly |-> TRUE, inputs |-> <<>>, gone |-> {}]
    /\ wk = [w \in Workers |-> Idle]
    /\ lastUpd = "none"

Post ==
    \E ct \in CTypes, data \in Bodies :
      \E today \in Today(data) :
        LET r == CreateAccounts(store, nextId, ct, data, today)
        IN /\ r.nextId <= MaxAccounts + 1
           /\ store' = r.store
           /\ nextId' = r.nextId
           /\ last' = Request("POST", 0, ct, data, r.resp)
           /\ hist' = IF hist.postsOnly /\ r.resp.status = HTTP_201_CREATED
                      THEN [hist EXCEPT !.inputs = Append(@, data)]
                      ELSE hist
           /\ UNCHANGED <<wk, lastUpd>>

List ==
    /\ last' = Request("LIST", 0, NoHeader, NullBody, ListAccounts(store))
    /\ UNCHANGED <<store, nextId, hist, wk, lastUpd>>

Read ==
    \E id \in ReqIds :
        /\ last' = Request("GET", id, NoHeader, NullBody, ReadAccount(store, id))
        /\ UNCHANGED <<store, nextId, hist, wk, lastUpd>>

Put ==
    \E id \in ReqIds, data \in Bodies :
      \E today \in Today(data) :
        \E r \in UpdateAccount(store, id, data, today) :
            /\ store' = r.store
            /\ last' = Request("PUT", id, NoHeader, data, r.resp)
            /\ hist' = [hist EXCEPT !.postsOnly = FALSE, !.inputs = <<>>]
            /\ UNCHANGED <<nextId, wk, lastUpd>>

Delete ==
    \E id \in ReqIds :
        LET r == DeleteAccount(store, id)
        IN /\ store' = r.store
           /\ last' = Request("DELETE", id, NoHeader, NullBody, r.resp)
           /\ hist' = [postsOnly |-> FALSE, inputs |-> <<>>,
                       gone |-> IF r.resp.status = HTTP_204_NO_CONTENT
                                   /\ id \in 1..(nextId - 1)
                                THEN hist.gone \cup {id} ELSE hist.gone]
           /\ UNCHANGED <<nextId, wk, lastUpd>>

Next == Post \/ List \/ Read \/ Put \/ Delete

Spec == Init /\ [][Next]_vars

----------------------------------------------------------------------------
\* ConcSpec: two workers handle PUT and DELETE requests in parallel, one
\* handler step at a time; the store is the only state they share.

\* The bodies the parallel PUTs carry: two full payloads and a bad one.
PutBodies ==
    { Body(BaseA, Required \cup {"date_joined"}), Body(BaseB, Required),
      Body(BaseA, {"name"}) }

\* Ids the parallel requests name: every id the store can assign.
ConcIds == 1..MaxConcAccounts

At(w, pc) == wk[w].pc = pc

\* An account is created (POST /accounts, whose one store access is create()).
CCreate ==
    \E data \in {b \in PutBodies : ValidBody(b)} :
      \E today \in Today(data) :
        LET r == CreateAccounts(store, nextId, "application/json", data, today)
        IN /\ r.nextId <= MaxConcAccounts + 1
           /\ store' = r.store
           /\ nextId' = r.nextId
           /\ UNCHANGED <<last, hist, wk, lastUpd>>

\* A worker takes a PUT /accounts/<id> request.
PutBegin(w) ==
    /\ At(w, "idle")
    /\ \E id \in ConcIds, data \in PutBodies :
          wk' = [wk EXCEPT ![w] = [Idle EXCEPT !.pc = "put_find", !.op = "PUT",
                                               !.id = id, !.body = data]]
    /\ UNCHANGED <<store, nextId, last, hist, lastUpd>>

\* account = Account.find(id); 404 if it is not there.
PutFind(w) ==
    /\ At(w, "put_find")
    /\ LET f == UpdateFind(store, wk[w].id)
       IN wk' = [wk EXCEPT ![w].found = f.found, ![w].account = f.account,
                           ![w].resp = f.resp,
                           ![w].pc = IF f.aborted THEN "done" ELSE "put_deserialize"]
    /\ UNCHANGED <<store, nextId, last, hist, lastUpd>>

\* account.deserialize(request.get_json()); 400 if it fails.
PutDeserialize(w) ==
    /\ At(w, "put_deserialize")
    /\ \E today \in Today(wk[w].body) :
          LET d == UpdateDeserialize(wk[w].account, wk[w].body, today)
          IN wk' = [wk EXCEPT ![w].account = d.account, ![w].resp = d.resp,
                              ![w].pc = IF d.aborted THEN "done" ELSE "put_update"]
    /\ UNCHANGED <<store, nextId, last, hist, lastUpd>>

\* account.update() and the 200 response.
PutUpdate(w) ==
    /\ At(w, "put_update")
    /\ \E r \in UpdateWrite(store, wk[w].account) :
          /\ store' = r.store
          /\ wk' = [wk EXCEPT ![w].resp = r.resp, ![w].pc = "done"]
    /\ lastUpd' = w
    /\ UNCHANGED <<nextId, last, hist>>

\* A worker takes a DELETE /accounts/<id> request.
DeleteBegin(w) ==
    /\ At(w, "idle")
    /\ \E id \in ConcIds :
          wk' = [wk EXCEPT ![w] = [Idle EXCEPT !.pc = "delete_find", !.op = "DELETE",
                                               !.id = id]]
    /\ UNCHANGED <<store, nextId, last, hist, lastUpd>>

\* account = Account.find(id)
DeleteFindStep(w) ==
    /\ At(w, "delete_find")
    /\ LET f == DeleteFind(store, wk[w].id)
       IN wk' = [wk EXCEPT ![w].found = f.found, ![w].account = f.account,
                           ![w].pc = "delete_write"]
    /\ UNCHANGED <<store, nextId, last, hist, lastUpd>>

\* if account: account.delete(); then 204.
DeleteWriteStep(w) ==
    /\ At(w, "delete_write")
    /\ store' = DeleteWrite(store, [found |-> wk[w].found, account |-> wk[w].account])
    /\ wk' = [wk EXCEPT ![w].resp = DeleteResponse, ![w].pc = "done"]
    /\ UNCHANGED <<nextId, last, hist, lastUpd>>

\* The response is sent and the worker is free again.
Finish(w) ==
    /\ At(w, "done")
    /\ wk' = [wk EXCEPT ![w] = Idle]
    /\ UNCHANGED <<store, nextId, last, hist, lastUpd>>

ConcNext ==
    \/ CCreate
    \/ \E w \in Workers : PutBegin(w)
    \/ \E w \in Workers : PutFind(w)
    \/ \E w \in Workers : PutDeserialize(w)
    \/ \E w \in Workers : PutUpdate(w)
    \/ \E w \in Workers : DeleteBegin(w)
    \/ \E w \in Workers : DeleteFindStep(w)
    \/ \E w \in Workers : DeleteWriteStep(w)
    \/ \E w \in Workers : Finish(w)

ConcSpec == Init /\ [][ConcNext]_vars

----------------------------------------------------------------------------
\* Properties of Spec (one request at a time).  In every state reached by a
\* request, `last` is that request with its response and `store` is the
\* store the request left, so ReadAccount(store, id) and ListAccounts(store)
\* are the responses of a GET that follows it.

\* A serialized account carries the body's four text fields, and the body's
\* date when it has one (today's date otherwise).
MatchesInput(json, data) ==
    /\ json.name = data.name
    /\ json.email = data.email
    /\ json.address = data.address
    /\ json.phone_number = data.phone_number
    /\ IF "date_joined" \in data.has
       THEN json.date_joined = data.date_joined
       ELSE json.date_joined \in { FormatIso(d) : d \in Clock }

IsPostJson == last.op = "POST" /\ last.ctype = "application/json"

\* C1: a valid payload POSTed as application/json is answered 201 with a
\* Location header and the payload's fields under a fresh server-assigned
\* id, and a GET of that id then returns 200 with the same values.
C1_CreateThenRead ==
    (IsPostJson /\ ValidBody(last.body)) =>
        /\ last.resp.status = HTTP_201_CREATED
        /\ last.resp.location # NoHeader
        /\ MatchesInput(last.resp.account, last.body)
        /\ last.resp.account.id = nextId - 1
        /\ last.resp.account.id >= 1
        /\ Cardinality({ i \in DOMAIN store : store[i].id = last.resp.account.id }) = 1
        /\ ReadAccount(store, last.resp.account.id)
             = Response(HTTP_200_OK, "account", last.resp.account, <<>>, "")

C1_Witness ==
    /\ IsPostJson /\ last.resp.status = HTTP_201_CREATED
    /\ last.body.has = Keys
    /\ last.body.id # last.resp.account.id
    /\ Len(store) = 2

\* The one-to-one correspondences between positions 1..n.
Perms(n) == { p \in [1..n -> 1..n] : \A i, j \in 1..n : p[i] = p[j] => i = j }

\* C2: after N successful POSTs and nothing else that writes, the list is
\* 200 with exactly N records, one per POST and matching its input; and the
\* list always holds exactly the stored accounts, each once, as a GET of
\* the id returns them.
C2_ListIsStore ==
    LET l == ListAccounts(store)
    IN /\ l.status = HTTP_200_OK
       /\ \A id \in ReqIds :
            LET hits == { i \in DOMAIN l.list : l.list[i].id = id }
                g == ReadAccount(store, id)
            IN IF g.status = HTTP_200_OK
               THEN Cardinality(hits) = 1 /\ \A i \in hits : l.list[i] = g.account
               ELSE hits = {}
       /\ \A i \in DOMAIN l.list : l.list[i].id \in ReqIds
       /\ hist.postsOnly =>
            /\ Len(l.list) = Len(hist.inputs)
            /\ Len(l.list) = nextId - 1
            /\ \E p \in Perms(Len(l.list)) :
                 \A i \in DOMAIN l.list : MatchesInput(l.list[p[i]], hist.inputs[i])

C2_Witness ==
    /\ hist.postsOnly /\ Len(hist.inputs) = MaxAccounts
    /\ last.op = "LIST" /\ Len(last.resp.list) = MaxAccounts
    /\ hist.inputs[1] # hist.inputs[2]

\* C3: a PUT of a valid body to a stored id is answered 200, a GET of the id
\* then returns the body's fields under the same id whatever id the body
\* carries, and no other account is changed.
C3_UpdateThenRead ==
    [][ (last'.op = "PUT" /\ last'.id \in StoredIds(store) /\ ValidBody(last'.body)) =>
          /\ last'.resp.status = HTTP_200_OK
          /\ LET g == ReadAccount(store', last'.id)
             IN /\ g.status = HTTP_200_OK
                /\ g.account.id = last'.id
                /\ MatchesInput(g.account, last'.body)
                /\ g.account = last'.resp.account
          /\ StoredIds(store') = StoredIds(store)
          /\ Len(store') = Len(store)
          /\ \A i \in DOMAIN store :
                store[i].id # last'.id => store'[i] = store[i] ]_vars

C3_Witness ==
    /\ last.op = "PUT" /\ last.resp.status = HTTP_200_OK
    /\ "id" \in last.body.has /\ last.body.id # last.id
    /\ last.body.id \in StoredIds(store)
    /\ ReadAccount(store, last.body.id).account.name # last.body.name

\* C4: a GET of an id that is not stored is 404, be it never created or
\* deleted with a 204 before, and a GET is 200 only for a stored id.
C4_ReadMissing ==
    /\ \A id \in ReqIds :
         (id = 0 \/ id >= nextId \/ id \in hist.gone) =>
            ReadAccount(store, id).status = HTTP_404_NOT_FOUND
    /\ (last.op = "DELETE" /\ last.resp.status = HTTP_204_NO_CONTENT) =>
         ReadAccount(store, last.id).status = HTTP_404_NOT_FOUND
    /\ last.op = "GET" =>
         /\ last.resp.status \in {HTTP_200_OK, HTTP_404_NOT_FOUND}
         /\ last.resp.status = HTTP_200_OK <=> last.id \in StoredIds(store)
         /\ last.resp.status = HTTP_200_OK => last.id \in 1..(nextId - 1) \ hist.gone

C4_Witness ==
    /\ last.op = "GET" /\ last.resp.status = HTTP_404_NOT_FOUND
    /\ last.id \in hist.gone
    /\ store # <<>>

\* C5: a DELETE of an id that is not stored is answered 204 with an empty
\* body and leaves the store as it was, so a second DELETE of an id leaves
\* what the first left.
C5_DeleteIdempotent ==
    /\ [][ (last'.op = "DELETE" /\ last'.id \notin StoredIds(store)) =>
              /\ last'.resp = Response(HTTP_204_NO_CONTENT, "empty", NoJson, <<>>, "")
              /\ store' = store ]_vars
    /\ [](\A id \in ReqIds :
              LET once == DeleteAccount(store, id)
                  twice == DeleteAccount(once.store, id)
              IN twice.store = once.store /\ twice.resp = once.resp)

C5_Witness ==
    /\ last.op = "DELETE" /\ last.resp.status = HTTP_204_NO_CONTENT
    /\ last.id \in hist.gone
    /\ last.id \notin StoredIds(store)
    /\ store # <<>>

\* C6: a POST whose Content-Type is absent or is not application/json is
\* answered 415 whatever its body, and creates nothing.
C6_UnsupportedMediaType ==
    [][ (last'.op = "POST" /\ last'.ctype # "application/json") =>
          /\ last'.resp.status = HTTP_415_UNSUPPORTED_MEDIA_TYPE
          /\ store' = store
          /\ nextId' = nextId ]_vars

C6_Witness ==
    /\ last.op = "POST" /\ last.ctype = NoHeader
    /\ ValidBody(last.body)
    /\ last.resp.status = HTTP_415_UNSUPPORTED_MEDIA_TYPE

\* C7: a POST as application/json of a body that lacks a required field is
\* answered 400 and stores nothing.
C7_BadRequest ==
    [][ (/\ last'.op = "POST" /\ last'.ctype = "application/json"
         /\ ~last'.body.isNull
         /\ \E k \in Required : k \notin last'.body.has) =>
          /\ last'.resp.status = HTTP_400_BAD_REQUEST
          /\ store' = store
          /\ nextId' = nextId ]_vars

C7_Witness ==
    /\ IsPostJson
    /\ last.body.has = (Required \ {"phone_number"}) \cup {"date_joined"}
    /\ last.resp.status = HTTP_400_BAD_REQUEST
    /\ store # <<>>

\* C8: a PUT to an id that is not stored is answered 404 whatever its body,
\* a PUT to a stored id with a null body or one that fails deserialization
\* is answered 400, and both leave every stored account as it was.
C8_UpdateErrors ==
    [][ last'.op = "PUT" =>
          /\ last'.id \notin StoredIds(store) =>
                last'.resp.status = HTTP_404_NOT_FOUND /\ store' = store
          /\ (last'.id \in StoredIds(store) /\ ~ValidBody(last'.body)) =>
                last'.resp.status = HTTP_400_BAD_REQUEST /\ store' = store ]_vars

C8_Witness ==
    /\ last.op = "PUT" /\ last.resp.status = HTTP_400_BAD_REQUEST
    /\ last.body.has = (Required \ {"address"}) \cup {"date_joined"}
    /\ last.id \in StoredIds(store)
    /\ ReadAccount(store, last.id).account.name # last.body.name

----------------------------------------------------------------------------
\* Properties of ConcSpec (parallel workers).

PutDone(w) == At(w, "done") /\ wk[w].op = "PUT"

\* C9: when two PUTs of valid bodies to the same stored id have both been
\* handled, in whatever interleaving, both are answered 200 and the stored
\* account is the whole payload of the one whose update ran last.
C9_LastWriterWins ==
    \A w1, w2 \in Workers :
        (/\ w1 # w2
         /\ PutDone(w1) /\ PutDone(w2)
         /\ wk[w1].id = wk[w2].id
         /\ wk[w1].found /\ wk[w2].found
         /\ ValidBody(wk[w1].body) /\ ValidBody(wk[w2].body)
         /\ lastUpd = w1) =>
            /\ wk[w1].resp.status = HTTP_200_OK
            /\ wk[w2].resp.status = HTTP_200_OK
            /\ LET g == ReadAccount(store, wk[w1].id)
               IN /\ g.status = HTTP_200_OK
                  /\ g.account.id = wk[w1].id
                  /\ MatchesInput(g.account, wk[w1].body)
                  /\ g.account = wk[w1].resp.account

C9_Witness ==
    \E w1, w2 \in Workers :
        /\ w1 # w2
        /\ PutDone(w1) /\ PutDone(w2)
        /\ wk[w1].id = wk[w2].id
        /\ wk[w1].resp.status = HTTP_200_OK /\ wk[w2].resp.status = HTTP_200_OK
        /\ wk[w1].body.name # wk[w2].body.name
        /\ lastUpd = w1
        /\ ReadAccount(store, wk[w1].id).account.name = wk[w1].body.name

\* C10, as claimed: a PUT's update step only ever runs while its id is in
\* the store.
C10_UpdateOnlyWhilePresent ==
    [][ \A w \in Workers :
          (wk[w].pc = "put_update" /\ wk'[w].pc = "done") =>
              wk[w].id \in StoredIds(store) ]_vars

\* C10, amended: a PUT's update step only runs after the handler's own find
\* returned the account of that id, which was stored then; the id may be
\* gone from the store by the time the update runs.
C10_UpdateAfterOwnFind ==
    [][ \A w \in Workers :
          (wk[w].pc = "put_update" /\ wk'[w].pc = "done") =>
              /\ wk[w].found
              /\ wk[w].account.id = wk[w].id
              /\ wk[w].id \in 1..(nextId - 1) ]_vars

C10_Witness ==
    \E w \in Workers :
        /\ At(w, "put_update")
        /\ wk[w].found
        /\ wk[w].id \notin StoredIds(store)

====
